---- MODULE Spec2Model ----
(***************************************************************************)
(* Model of Spectrum.py (fit-BEL): the construction pipeline of a Spectrum *)
(* object and the module-level configuration it reads and writes.          *)
(*                                                                         *)
(* Numbers are exact extended rationals [n |-> numerator, d |-> denom.]:   *)
(* d > 0 for a finite value in lowest terms, 1/0 for +inf, -1/0 for -inf   *)
(* and 0/0 for nan, the values numpy produces for x/0.0 and for the        *)
(* variance of an empty selection.  Floating-point rounding is not         *)
(* modelled.                                                               *)
(***************************************************************************)
EXTENDS Integers, Sequences, FiniteSets, TLC

VARIABLES
    IVAR_INTERVALS,        \* config.IVAR_INTERVALS, module-level, shared by all constructions
    n_constructed,         \* how many times Spectrum(...) has been called in this process
    pc,                    \* position inside __init__: the next call to make
    error,                 \* the exception that aborted the construction, or "none"
    stages,                \* the calls __init__ has made so far, in order
    data,                  \* self.data: the loaded table
    lambda_has_to_numpy,   \* whether data['lambda'].values is an array type with .to_numpy
    wavelength,            \* self.wavelength
    flux,                  \* self.flux
    ivar,                  \* self.ivar (the attribute exists from pc = "mask" on; <<>> before)
    redshift,              \* self.redshift
    rest_frame,            \* self.rest_frame
    linearize_wavelength,  \* self.linearize_wavelength
    a_v_extinction,        \* self.a_v_extinction
    to_rest_frame          \* self.to_rest_frame

vars == <<IVAR_INTERVALS, n_constructed, pc, error, stages, data, lambda_has_to_numpy,
          wavelength, flux, ivar, redshift, rest_frame, linearize_wavelength,
          a_v_extinction, to_rest_frame>>

objvars == <<data, lambda_has_to_numpy, wavelength, flux, ivar, redshift, rest_frame,
             linearize_wavelength, a_v_extinction, to_rest_frame>>

\* ---------------------------------------------------------------- bounds

\* Longest loaded table (rows).
MaxLen == 3

\* Constructions per process run.
MaxConstructions == 2

\* ------------------------------------------------------------ arithmetic

\* Python's None.
None == [none |-> TRUE]

Abs(i) == IF i < 0 THEN -i ELSE i

Sign(i) == IF i < 0 THEN -1 ELSE IF i > 0 THEN 1 ELSE 0

RECURSIVE Gcd(_, _)
Gcd(a, b) == IF b = 0 THEN a ELSE Gcd(b, a % b)

\* The extended rational n/d in canonical form.
Norm(n, d) ==
    IF d = 0 THEN [n |-> Sign(n), d |-> 0]
    ELSE LET g == Gcd(Abs(n), Abs(d))
             s == Sign(d)
         IN  [n |-> (s * n) \div g, d |-> (s * d) \div g]

R(i) == [n |-> i, d |-> 1]

Zero == R(0)
One == R(1)
NaN == [n |-> 0, d |-> 0]

IsFinite(x) == x.d # 0

Add(x, y) == Norm(x.n * y.d + y.n * x.d, x.d * y.d)
Sub(x, y) == Norm(x.n * y.d - y.n * x.d, x.d * y.d)
Mul(x, y) == Norm(x.n * y.n, x.d * y.d)

\* x / y for finite x and y under IEEE rules: x/0 is +-inf, 0/0 is nan.
Div(x, y) == Norm(x.n * y.d, x.d * y.n)

\* Comparisons of finite values; any comparison with nan is False.
Leq(x, y) == IsFinite(x) /\ IsFinite(y) /\ x.n * y.d <= y.n * x.d
Lt(x, y) == IsFinite(x) /\ IsFinite(y) /\ x.n * y.d < y.n * x.d

RECURSIVE Pow10Nat(_)
Pow10Nat(k) == IF k = 0 THEN 1 ELSE 10 * Pow10Nat(k - 1)

\* 10 ** w for an integral w (the only exponents the inputs below contain).
Pow10(w) == IF w.n >= 0 THEN R(Pow10Nat(w.n)) ELSE Norm(1, Pow10Nat(-w.n))

RECURSIVE SumSeq(_)
SumSeq(s) == IF Len(s) = 0 THEN Zero ELSE Add(Head(s), SumSeq(Tail(s)))

\* np.max of a non-empty array.
RECURSIVE NpMax(_)
NpMax(s) == IF Len(s) = 1 THEN s[1]
            ELSE LET m == NpMax(Tail(s)) IN IF Lt(m, s[1]) THEN s[1] ELSE m

\* np.mean: sum / count; 0/0 = nan for an empty array.
NpMean(s) == LET t == SumSeq(s) IN Norm(t.n, t.d * Len(s))

\* np.var (ddof = 0): mean(|x - mean(x)| ** 2); nan for an empty array.
NpVar(s) ==
    IF Len(s) = 0 THEN NaN
    ELSE LET m == NpMean(s)
             dev == [i \in 1..Len(s) |-> Mul(Sub(s[i], m), Sub(s[i], m))]
         IN  NpMean(dev)

\* arr[mask] with a boolean mask of the same length.
RECURSIVE BoolIndex(_, _)
BoolIndex(arr, mask) ==
    IF Len(arr) = 0 THEN <<>>
    ELSE IF Head(mask) THEN <<Head(arr)>> \o BoolIndex(Tail(arr), Tail(mask))
         ELSE BoolIndex(Tail(arr), Tail(mask))

\* ------------------------------------------------------- configuration

\* config.IVAR_INTERVALS as the module is imported: the [low, high] continuum window.
BASE_IVAR_INTERVALS == <<R(2), R(100)>>

\* config.TRIM_INTERVALS.
TRIM_INTERVALS == <<R(2), R(50)>>

\* The default of _correct_extinction's r_v_extinction parameter, 3.1.
r_v_extinction == Norm(31, 10)

\* The threshold of the log-scale heuristic in _linearize_wavelength.
LogThreshold == 5

\* ---------------------------------------------------------------- inputs

\* Values a loaded lambda column holds: log10 values below the threshold, the
\* threshold itself, and larger ones.
WaveVals == {1, 2, 5, 20}

FluxVals == {1, 2}

IvarVals == {0, 1}

\* Redshifts passed by the caller: above -1, or None.
Redshifts == {Norm(-1, 2), R(0), R(1), None}

\* Extinction magnitudes passed by the caller.
Extinctions == {None, R(1)}

Lift(s) == [i \in 1..Len(s) |-> R(s[i])]

\* Tables read_data can return: a lambda and a flux column of the same length,
\* lambda increasing, and for a .fits file possibly an ivar column.
Tables ==
    UNION { { [columns |-> cols,
               lambda |-> Lift(w),
               flux |-> Lift(f),
               ivar |-> IF "ivar" \in cols THEN Lift(v) ELSE <<>>] :
                 w \in { u \in [1..n -> WaveVals] : \A i \in 1..(n - 1) : u[i] < u[i + 1] },
                 f \in [1..n -> FluxVals],
                 v \in [1..n -> IvarVals],
                 cols \in { {"lambda", "flux"}, {"lambda", "flux", "ivar"} } } :
            n \in 1..MaxLen }

\* ------------------------------------------------------- pipeline stages

\* __init__ with the rest-frame call moved ahead of the delinearization.
NextCallRestFirst(stage) ==
    CASE stage = "load" -> "rest"
      [] stage = "rest" -> "linearize"
      [] stage = "linearize" -> "extinction"
      [] stage = "extinction" -> "ivar"
      [] stage = "ivar" -> "mask"
      [] stage = "mask" -> "done"

\* The calls of __init__ after the load, in the order lines 31-36 make them.
NextCall(stage) ==
    CASE stage = "load" -> "linearize"
      [] stage = "linearize" -> "extinction"
      [] stage = "extinction" -> "rest"
      [] stage = "rest" -> "ivar"
      [] stage = "ivar" -> "mask"
      [] stage = "mask" -> "done"

\* _linearize_wavelength with the threshold test written <= 5.
LinearizedWavelengthInclusive(w, lin) ==
    IF lin /\ Leq(NpMax(w), R(LogThreshold))
    THEN [i \in 1..Len(w) |-> Pow10(w[i])]
    ELSE w

\* _linearize_wavelength: the value of self.wavelength when it returns.
LinearizedWavelength(w, lin) ==
    IF lin /\ Lt(NpMax(w), R(LogThreshold))
    THEN [i \in 1..Len(w) |-> Pow10(w[i])]
    ELSE w

\* extinction.fitzpatrick99(wave, a_v, r_v): the extinction in magnitudes at each
\* wavelength, kept as an uninterpreted term.
fp99(w, a_v, r_v) ==
    [i \in 1..Len(w) |-> [law |-> "fitzpatrick99", wave |-> w[i], a_v |-> a_v, r_v |-> r_v]]

\* extinction.remove(extinction, flux): a new array, flux * 10 ** (0.4 * extinction),
\* kept as an uninterpreted term; the flux array passed in is not modified.
ext_remove(curve, f) ==
    [i \in 1..Len(f) |-> [dereddened |-> f[i], extinction |-> curve[i]]]

\* What _correct_extinction returns when it reaches its return statement.
CorrectedFlux(w, f, a_v) == ext_remove(fp99(w, a_v, r_v_extinction), f)

\* _to_rest_frame, to_rest_frame set: the new self.wavelength and self.flux.
RestFrameWavelength(w, z) == [i \in 1..Len(w) |-> Div(w[i], Add(One, z))]

\* _to_rest_frame with the flux divided by 1 + z like the wavelength.
RestFrameFluxDivided(f, z) == [i \in 1..Len(f) |-> Div(f[i], Add(One, z))]

RestFrameFlux(f, z) == [i \in 1..Len(f) |-> Mul(f[i], Add(One, z))]

\* config.IVAR_INTERVALS * (1 + self.redshift) for a numpy pair.
ScaledIntervals(iv, z) == <<Mul(iv[1], Add(One, z)), Mul(iv[2], Add(One, z))>>

\* (arr >= lo) & (arr <= hi)
WindowMask(w, iv) == [i \in 1..Len(w) |-> Leq(iv[1], w[i]) /\ Leq(w[i], iv[2])]

\* Lines 58-61: one scalar, 1 / var(continuum), for every sample of wavelength.
EstimatedIvar(w, f, iv) ==
    LET continuum == BoolIndex(f, WindowMask(w, iv))
        v == Div(One, NpVar(continuum))
    IN  [i \in 1..Len(w) |-> v]

\* The keep-mask written self.ivar > 0: it also drops nan.
DeadPixelMaskPositive(iv) == [i \in 1..Len(iv) |-> iv[i].n > 0]

\* self.ivar != 0
DeadPixelMask(iv) == [i \in 1..Len(iv) |-> iv[i] # Zero]

\* (arr >= TRIM_INTERVALS[0]) & (arr <= TRIM_INTERVALS[1])
TrimMask(w) == WindowMask(w, TRIM_INTERVALS)

\* The three assignments of _trim_data and of _mask_dead_pixels: one mask, computed
\* before the first assignment, indexes the three arrays.
MaskedFlux(f, mask) == BoolIndex(f, mask)

\* A masking that leaves self.ivar as it was.
MaskedIvarUnmasked(iv, mask) == iv

MaskedIvar(iv, mask) == BoolIndex(iv, mask)

MaskedWavelength(w, mask) == BoolIndex(w, mask)

\* ------------------------------------------------------------------ state

Init ==
    /\ IVAR_INTERVALS = BASE_IVAR_INTERVALS
    /\ n_constructed = 0
    /\ pc = "idle"
    /\ error = "none"
    /\ stages = <<>>
    /\ data = [columns |-> {}, lambda |-> <<>>, flux |-> <<>>, ivar |-> <<>>]
    /\ lambda_has_to_numpy = FALSE
    /\ wavelength = <<>>
    /\ flux = <<>>
    /\ ivar = <<>>
    /\ redshift = None
    /\ rest_frame = FALSE
    /\ linearize_wavelength = FALSE
    /\ a_v_extinction = None
    /\ to_rest_frame = FALSE

\* An exception leaves __init__: no object is returned.
Raise(exc) ==
    /\ pc' = "failed"
    /\ error' = exc

\* Spectrum(file_path, redshift, ...), lines 20-29: the table is loaded and the
\* arguments are stored.  No argument is checked.
SpectrumInit(table, has_to_numpy, z, a_v, lin, rest) ==
    /\ n_constructed' = n_constructed + 1
    /\ data' = table
    /\ lambda_has_to_numpy' = has_to_numpy
    /\ wavelength' = table.lambda
    /\ flux' = table.flux
    /\ ivar' = <<>>
    /\ redshift' = z
    /\ rest_frame' = rest
    /\ linearize_wavelength' = lin
    /\ a_v_extinction' = a_v
    /\ to_rest_frame' = rest
    /\ pc' = NextCall("load")
    /\ error' = "none"
    /\ stages' = <<"load">>
    /\ UNCHANGED IVAR_INTERVALS

\* Line 31, lines 38-41.
LinearizeWavelength ==
    /\ pc = "linearize"
    /\ stages' = Append(stages, "linearize")
    /\ wavelength' = LinearizedWavelength(wavelength, linearize_wavelength)
    /\ pc' = NextCall("linearize")
    /\ UNCHANGED <<IVAR_INTERVALS, n_constructed, error, data, lambda_has_to_numpy, flux,
                   ivar, redshift, rest_frame, linearize_wavelength, a_v_extinction,
                   to_rest_frame>>

\* Line 32, lines 43-46.  self.wavelength is data['lambda'].values: a numpy ndarray
\* has no to_numpy (AttributeError); a pandas extension array has one, and then the
\* corrected flux is returned to __init__, which drops it.
CorrectExtinction ==
    /\ pc = "extinction"
    /\ stages' = Append(stages, "extinction")
    /\ IF a_v_extinction # None /\ ~lambda_has_to_numpy
       THEN Raise("AttributeError")
       ELSE /\ pc' = NextCall("extinction")
            /\ error' = error
    /\ UNCHANGED <<IVAR_INTERVALS, n_constructed, objvars>>

\* Line 33, lines 48-51.  1 + None is a TypeError.
ToRestFrame ==
    /\ pc = "rest"
    /\ stages' = Append(stages, "rest")
    /\ IF to_rest_frame /\ redshift = None
       THEN /\ Raise("TypeError")
            /\ UNCHANGED <<wavelength, flux>>
       ELSE /\ wavelength' = IF to_rest_frame THEN RestFrameWavelength(wavelength, redshift)
                             ELSE wavelength
            /\ flux' = IF to_rest_frame THEN RestFrameFlux(flux, redshift) ELSE flux
            /\ pc' = NextCall("rest")
            /\ error' = error
    /\ UNCHANGED <<IVAR_INTERVALS, n_constructed, data, lambda_has_to_numpy, ivar, redshift,
                   rest_frame, linearize_wavelength, a_v_extinction, to_rest_frame>>

\* The window lines 58-59 read: config.IVAR_INTERVALS after line 57 has (or has not)
\* reassigned it.
IvarWindow(intervals, rest, z) == IF rest THEN intervals ELSE ScaledIntervals(intervals, z)

\* Line 35, lines 53-61.
CalculateIvar ==
    /\ pc = "ivar"
    /\ stages' = Append(stages, "ivar")
    /\ IF "ivar" \in data.columns
       THEN /\ ivar' = data.ivar
            /\ pc' = NextCall("ivar")
            /\ UNCHANGED <<IVAR_INTERVALS, error>>
       ELSE IF ~rest_frame /\ redshift = None
            THEN /\ Raise("TypeError")
                 /\ UNCHANGED <<IVAR_INTERVALS, ivar>>
            ELSE /\ IVAR_INTERVALS' = IvarWindow(IVAR_INTERVALS, rest_frame, redshift)
                 /\ ivar' = EstimatedIvar(wavelength, flux, IVAR_INTERVALS')
                 /\ pc' = NextCall("ivar")
                 /\ error' = error
    /\ UNCHANGED <<n_constructed, data, lambda_has_to_numpy, wavelength, flux, redshift,
                   rest_frame, linearize_wavelength, a_v_extinction, to_rest_frame>>

\* Line 36, lines 69-73.
MaskDeadPixels ==
    /\ pc = "mask"
    /\ stages' = Append(stages, "mask")
    /\ LET dead_pixel_mask == DeadPixelMask(ivar)
       IN  /\ flux' = MaskedFlux(flux, dead_pixel_mask)
           /\ ivar' = MaskedIvar(ivar, dead_pixel_mask)
           /\ wavelength' = MaskedWavelength(wavelength, dead_pixel_mask)
    /\ pc' = NextCall("mask")
    /\ UNCHANGED <<IVAR_INTERVALS, n_constructed, error, data, lambda_has_to_numpy, redshift,
                   rest_frame, linearize_wavelength, a_v_extinction, to_rest_frame>>

\* obj._mask_dead_pixels() called again on a constructed object, lines 69-73.
MaskDeadPixelsAgain ==
    /\ pc = "done"
    /\ LET dead_pixel_mask == DeadPixelMask(ivar)
       IN  /\ flux' = MaskedFlux(flux, dead_pixel_mask)
           /\ ivar' = MaskedIvar(ivar, dead_pixel_mask)
           /\ wavelength' = MaskedWavelength(wavelength, dead_pixel_mask)
    /\ UNCHANGED <<IVAR_INTERVALS, n_constructed, pc, error, stages, data,
                   lambda_has_to_numpy, redshift, rest_frame, linearize_wavelength,
                   a_v_extinction, to_rest_frame>>

\* obj._trim_data() on a constructed object, lines 63-67.
TrimData ==
    /\ pc = "done"
    /\ LET mask == TrimMask(wavelength)
       IN  /\ wavelength' = MaskedWavelength(wavelength, mask)
           /\ flux' = MaskedFlux(flux, mask)
           /\ ivar' = MaskedIvar(ivar, mask)
    /\ UNCHANGED <<IVAR_INTERVALS, n_constructed, pc, error, stages, data,
                   lambda_has_to_numpy, redshift, rest_frame, linearize_wavelength,
                   a_v_extinction, to_rest_frame>>

\* The caller drops its reference to the object (or the exception has propagated):
\* what a later construction starts from is the module state alone.
Release ==
    /\ pc \in {"done", "failed"}
    /\ pc' = "idle"
    /\ error' = "none"
    /\ stages' = <<>>
    /\ data' = [columns |-> {}, lambda |-> <<>>, flux |-> <<>>, ivar |-> <<>>]
    /\ lambda_has_to_numpy' = FALSE
    /\ wavelength' = <<>>
    /\ flux' = <<>>
    /\ ivar' = <<>>
    /\ redshift' = None
    /\ rest_frame' = FALSE
    /\ linearize_wavelength' = FALSE
    /\ a_v_extinction' = None
    /\ to_rest_frame' = FALSE
    /\ UNCHANGED <<IVAR_INTERVALS, n_constructed>>

\* A call Spectrum(...) with any loadable table and any arguments.
Construct ==
    /\ pc = "idle"
    /\ n_constructed < MaxConstructions
    /\ \E table \in Tables, z \in Redshifts, a_v \in Extinctions,
          lin \in BOOLEAN, rest \in BOOLEAN :
         \E has_to_numpy \in (IF a_v = None THEN {FALSE} ELSE BOOLEAN) :
            SpectrumInit(table, has_to_numpy, z, a_v, lin, rest)

Next ==
    \/ Construct
    \/ Release
    \/ LinearizeWavelength
    \/ CorrectExtinction
    \/ ToRestFrame
    \/ CalculateIvar
    \/ MaskDeadPixels
    \/ MaskDeadPixelsAgain
    \/ TrimData

Spec == Init /\ [][Next]_vars

\* ---------------------------------------------------------------- claims

NoIvarColumn == "ivar" \notin data.columns

\* The stages of a construction, in the documented order.
PipelineOrder == <<"load", "linearize", "extinction", "rest", "ivar", "mask">>

\* The scalar 1 / var of the flux samples whose wavelength lies in [window[1], window[2]],
\* computed from the definition of the population variance: E[x^2] - E[x]^2.
InWindow(w, window) == {i \in 1..Len(w) : Leq(window[1], w[i]) /\ Leq(w[i], window[2])}

RECURSIVE SumOver(_, _, _)
SumOver(f, S, sq) ==
    IF S = {} THEN Zero
    ELSE LET i == CHOOSE j \in S : TRUE
         IN  Add(IF sq THEN Mul(f[i], f[i]) ELSE f[i], SumOver(f, S \ {i}, sq))

InverseVariance(w, f, window) ==
    LET S == InWindow(w, window)
        k == Cardinality(S)
        mean == Div(SumOver(f, S, FALSE), R(k))
        meansq == Div(SumOver(f, S, TRUE), R(k))
    IN  IF k = 0 THEN NaN ELSE Div(One, Sub(meansq, Mul(mean, mean)))

\* C1: constructing a Spectrum never changes the shared configured ivar continuum
\* interval: it always has the value it had before the first construction.
C1_ConfigNeverMutated == IVAR_INTERVALS = BASE_IVAR_INTERVALS

\* C2: once the extinction-correction stage has run, the stored flux is the de-reddened
\* flux when an extinction magnitude was supplied, and the loaded flux when none was.
C2_ExtinctionReplacesFlux ==
    (Len(stages) = 3 /\ stages[3] = "extinction") =>
        IF a_v_extinction # None
        THEN /\ pc = "rest"
             /\ flux = CorrectedFlux(wavelength, data.flux, a_v_extinction)
        ELSE flux = data.flux

\* C3: without an ivar column, a construction gets past the ivar stage only if the
\* continuum window selected at least one sample and their variance is not zero.
C3_DegenerateContinuumFails ==
    (pc \in {"mask", "done"} /\ NoIvarColumn) =>
        \A i \in 1..Len(ivar) : IsFinite(ivar[i])

\* C4: wavelength and flux have equal length after every stage, and from the ivar
\* stage on (also after _trim_data) ivar has that length too.
C4_EqualLengths ==
    /\ Len(wavelength) = Len(flux)
    /\ pc \in {"mask", "done"} => Len(ivar) = Len(wavelength)

C4_Witness ==
    /\ pc = "done"
    /\ Len(data.lambda) = 3
    /\ Len(wavelength) = 1
    /\ Len(ivar) = 1

\* The k-th smallest element of a set of indices.
Kth(S, k) == CHOOSE i \in S : Cardinality({j \in S : j <= i}) = k

\* C5: dead-pixel masking removes exactly the indices whose ivar is 0, the same ones
\* from wavelength, flux and ivar, and keeps the others in order and aligned; afterwards
\* no ivar is 0, and masking a constructed object again changes nothing.
C5_MaskingExact ==
    /\ [][(pc = "mask" /\ pc' = "done") =>
            LET kept == {i \in 1..Len(ivar) : ~(ivar[i].n = 0 /\ ivar[i].d = 1)}
                n == Cardinality(kept)
            IN  /\ Len(wavelength') = n /\ Len(flux') = n /\ Len(ivar') = n
                /\ \A k \in 1..n : /\ wavelength'[k] = wavelength[Kth(kept, k)]
                                   /\ flux'[k] = flux[Kth(kept, k)]
                                   /\ ivar'[k] = ivar[Kth(kept, k)]]_vars
    /\ [](pc = "done" =>
            /\ \A k \in 1..Len(ivar) : ivar[k] # Zero
            /\ MaskedWavelength(wavelength, DeadPixelMask(ivar)) = wavelength
            /\ MaskedFlux(flux, DeadPixelMask(ivar)) = flux
            /\ MaskedIvar(ivar, DeadPixelMask(ivar)) = ivar)

C5_Witness ==
    /\ pc = "done"
    /\ data.ivar = <<One, Zero, One>>
    /\ data.flux = <<R(1), R(2), R(2)>>
    /\ flux = <<R(1), R(2)>>
    /\ Len(wavelength) = 2

\* C6: without a redshift a construction fails with MissingRequiredFieldError before any
\* pipeline stage has run: it never runs a stage and never completes.
C6_MissingRedshiftChecked ==
    (pc # "idle" /\ redshift = None) =>
        /\ Len(stages) <= 1
        /\ pc # "done"
        /\ pc = "failed" => error = "MissingRequiredFieldError"

\* C7: when the ivar stage has run, ivar is the ivar column if the table has one, and
\* otherwise every pixel's ivar is 1/variance of the flux inside the base interval
\* (rest frame applied) or the base interval times (1 + redshift) (not applied),
\* whenever that variance is a positive number.
C7_IvarFromBaseWindow ==
    pc = "mask" =>
        IF NoIvarColumn
        THEN LET window == IF rest_frame THEN BASE_IVAR_INTERVALS
                           ELSE <<Mul(BASE_IVAR_INTERVALS[1], Add(One, redshift)),
                                  Mul(BASE_IVAR_INTERVALS[2], Add(One, redshift))>>
                 expected == InverseVariance(wavelength, flux, window)
             IN  /\ Len(ivar) = Len(wavelength)
                 /\ IsFinite(expected) => \A i \in 1..Len(ivar) : ivar[i] = expected
        ELSE ivar = data.ivar

\* C8: the rest-frame stage, enabled, divides every wavelength by 1 + z and multiplies
\* every flux by 1 + z; disabled, it changes neither, and the ivar stage then selects
\* the continuum in the configured interval times 1 + z.
C8_RestFrame ==
    /\ [][(pc = "rest" /\ pc' = "ivar") =>
            IF to_rest_frame
            THEN /\ Len(wavelength') = Len(wavelength) /\ Len(flux') = Len(flux)
                 /\ \A i \in 1..Len(wavelength) :
                       Mul(wavelength'[i], Add(One, redshift)) = wavelength[i]
                 /\ \A i \in 1..Len(flux) :
                       Div(flux'[i], Add(One, redshift)) = flux[i]
            ELSE wavelength' = wavelength /\ flux' = flux]_vars
    /\ [][(pc = "ivar" /\ pc' = "mask" /\ NoIvarColumn /\ ~to_rest_frame) =>
            LET window == <<Mul(IVAR_INTERVALS[1], Add(One, redshift)),
                            Mul(IVAR_INTERVALS[2], Add(One, redshift))>>
            IN  /\ rest_frame = to_rest_frame
                /\ Len(ivar') = Len(wavelength)
                /\ \A i \in 1..Len(ivar') :
                      ivar'[i] = InverseVariance(wavelength, flux, window)]_vars

C8_Witness ==
    /\ pc = "ivar"
    /\ to_rest_frame
    /\ redshift = Norm(-1, 2)
    /\ data.lambda = <<R(1), R(5), R(20)>>
    /\ wavelength = <<R(2), R(10), R(40)>>

\* C9: delinearization replaces every wavelength w by 10^w exactly when the option is
\* enabled and every loaded wavelength is below 5; otherwise wavelength is unchanged;
\* flux is never changed.
C9_Delinearization ==
    [][(pc = "linearize" /\ pc' = "extinction") =>
         /\ flux' = flux
         /\ IF linearize_wavelength /\ \A i \in 1..Len(wavelength) : wavelength[i].n < 5 * wavelength[i].d
            THEN /\ Len(wavelength') = Len(wavelength)
                 /\ \A i \in 1..Len(wavelength) : wavelength'[i] = R(10 ^ wavelength[i].n)
            ELSE wavelength' = wavelength]_vars

C9_Witness ==
    /\ pc = "extinction"
    /\ linearize_wavelength
    /\ data.lambda = <<R(1), R(2)>>
    /\ wavelength = <<R(10), R(100)>>

\* C10: a construction makes the calls load, linearize, extinction, rest, ivar, mask in
\* this order, each once; the log-scale test sees the loaded wavelengths, and the ivar
\* estimate is computed from the arrays the earlier stages left.
C10_StageOrder ==
    /\ Len(stages) <= Len(PipelineOrder)
    /\ stages = SubSeq(PipelineOrder, 1, Len(stages))
    /\ pc = "done" => stages = PipelineOrder
    /\ pc \in {"linearize", "extinction", "rest", "ivar", "mask"} =>
          PipelineOrder[Len(stages) + 1] = pc
    /\ pc = "linearize" => wavelength = data.lambda /\ flux = data.flux
    /\ pc \in {"ivar", "mask"} =>
          LET lin == IF linearize_wavelength /\ \A i \in 1..Len(data.lambda) : Lt(data.lambda[i], R(5))
                     THEN [i \in 1..Len(data.lambda) |-> R(10 ^ data.lambda[i].n)]
                     ELSE data.lambda
          IN  /\ wavelength = IF to_rest_frame
                              THEN [i \in 1..Len(lin) |-> Div(lin[i], Add(One, redshift))]
                              ELSE lin
              /\ flux = IF to_rest_frame
                        THEN [i \in 1..Len(data.flux) |-> Mul(data.flux[i], Add(One, redshift))]
                        ELSE data.flux
    /\ (pc = "mask" /\ NoIvarColumn) =>
          \A i \in 1..Len(ivar) : ivar[i] = InverseVariance(wavelength, flux, IVAR_INTERVALS)

C10_Witness ==
    /\ pc = "done"
    /\ stages = PipelineOrder
    /\ linearize_wavelength
    /\ to_rest_frame
    /\ NoIvarColumn
    /\ wavelength = <<R(5), R(50)>>

====
